---------------------------- MODULE Spec2Model ----------------------------
(***************************************************************************)
(* find_ext (src/src/main.rs): guess the dominant source extension of a    *)
(* directory.  One invocation of the program loads the cache file, looks   *)
(* the path up, tests the marker files, walks the directory tallying the   *)
(* look-for extensions, and writes the cache file back.                    *)
(*                                                                         *)
(* Strings are sequences of tokens.  The separators the code looks at      *)
(* ("/", ".", ";", newline, blank) are tokens of their own; every other    *)
(* token is a run of ordinary characters ("Cargo", "rs") that none of the  *)
(* string operations of the program can split.                             *)
(***************************************************************************)
EXTENDS Integers, Sequences, FiniteSets, TLC

\* ------------------------------------------------------------------ bounds
\* Invocations of the program in one behaviour.
MaxRuns == 3
\* Changes made to the directories between invocations.
MaxChanges == 1
\* Largest confidence threshold configured (FIND_EXT_CONFIDENCE_THRESHOLD).
MaxThreshold == 2
\* Largest depth argument given on the command line.
MaxDepthArg == 1
\* Marker files in a directory that is walked one level deep.
MaxWalkedMarkers == 3

\* --------------------------------------------------------------- constants
DEFAULT_MAX_DEPTH == 2

\* ----------------------------------------------------------------- strings
NL == "\n"
Whitespace == {" ", NL}

\* Option<T>: None, or Some(x).
None == <<>>
Some(x) == <<x>>
IsSome(o) == Len(o) = 1
Unwrap(o) == o[1]

\* str::contains: sub occurs in s as a contiguous run.
StrContains(s, sub) ==
    \E i \in 1..(Len(s) + 1) :
        /\ i + Len(sub) - 1 <= Len(s)
        /\ SubSeq(s, i, i + Len(sub) - 1) = sub

\* str::trim: leading and trailing whitespace removed.
RECURSIVE TrimStart(_)
TrimStart(s) ==
    IF s # <<>> /\ Head(s) \in Whitespace THEN TrimStart(Tail(s)) ELSE s

RECURSIVE TrimEnd(_)
TrimEnd(s) ==
    IF s # <<>> /\ s[Len(s)] \in Whitespace
    THEN TrimEnd(SubSeq(s, 1, Len(s) - 1))
    ELSE s

Trim(s) == TrimEnd(TrimStart(s))

\* str::split: the fields between the occurrences of sep; never empty
\* (splitting "" gives the one field "").
RECURSIVE SplitFrom(_, _, _)
SplitFrom(s, sep, field) ==
    IF s = <<>> THEN <<field>>
    ELSE IF Head(s) = sep THEN <<field>> \o SplitFrom(Tail(s), sep, <<>>)
    ELSE SplitFrom(Tail(s), sep, Append(field, Head(s)))

Split(s, sep) == SplitFrom(s, sep, <<>>)

\* [String]::join
RECURSIVE Join(_, _)
Join(parts, sep) ==
    IF parts = <<>> THEN <<>>
    ELSE IF Len(parts) = 1 THEN parts[1]
    ELSE parts[1] \o <<sep>> \o Join(Tail(parts), sep)

\* format!("{}/{}", path, file)
PathJoin(path, file) == path \o <<"/">> \o file

\* Path::file_name: the last component.
FileName(path) ==
    LET parts == Split(path, "/") IN parts[Len(parts)]

\* Path::extension: the part of the file name after its last ".", none when
\* the name has no "." or only a leading one.
Extension(path) ==
    LET name == FileName(path)
        dots == {i \in 1..Len(name) : name[i] = "."}
    IN  IF dots = {} THEN None
        ELSE LET last == CHOOSE i \in dots : \A j \in dots : j <= i
             IN  IF last = 1 THEN None
                 ELSE Some(SubSeq(name, last + 1, Len(name)))

\* All the orders of a finite set, as sequences.
RECURSIVE Orders(_)
Orders(S) ==
    IF S = {} THEN {<<>>}
    ELSE UNION {{<<x>> \o o : o \in Orders(S \ {x})} : x \in S}

\* --------------------------------------------------- configuration (9-30)
DEFAULT_CONFIDENCE_THRESHOLD == 5

RS == <<"rs">>
PY == <<"py">>
JS == <<"js">>
TS == <<"ts">>

\* FIND_EXT_DISALLOWED_FOLDERS, the same in every invocation.
DISALLOWED_FOLDERS == {<<"target">>}

\* ------------------------------------------------- check_marker_files (33-53)
markers ==
    << [file |-> <<"package", ".", "json">>,     ext |-> JS],
       [file |-> <<"Cargo", ".", "toml">>,       ext |-> RS],
       [file |-> <<"requirements", ".", "txt">>, ext |-> PY],
       [file |-> <<"setup", ".", "py">>,         ext |-> PY],
       [file |-> <<"go", ".", "mod">>,           ext |-> <<"go">>],
       [file |-> <<"composer", ".", "json">>,    ext |-> <<"php">>],
       [file |-> <<"build", ".", "gradle">>,     ext |-> <<"kt">>],
       [file |-> <<"pom", ".", "xml">>,          ext |-> <<"java">>],
       [file |-> <<"Gemfile">>,                  ext |-> <<"rb">>] >>

\* The positions of the markers that exist directly inside path
\* (fs::metadata(path/file).is_ok()).
ExistingMarkers(path, files) ==
    {i \in 1..Len(markers) : PathJoin(path, markers[i].file) \in files}

\* The position at which the loop of check_marker_files returns, 0 when it
\* runs to its end.
MarkerHit(path, files) ==
    LET ex == ExistingMarkers(path, files)
    IN  IF ex = {} THEN 0 ELSE CHOOSE i \in ex : \A j \in ex : i <= j

\* A faulty loop that returns the last existing marker, not the first.
check_marker_files_last(path, files) ==
    LET ex == ExistingMarkers(path, files)
    IN  IF ex = {} THEN None
        ELSE Some(markers[CHOOSE i \in ex : \A j \in ex : j <= i].ext)
\* check_marker_files: the extension of the first marker that exists.
check_marker_files(path, files) ==
    LET i == MarkerHit(path, files)
    IN  IF i = 0 THEN None ELSE Some(markers[i].ext)

\* The number of fs::metadata calls check_marker_files makes.
MarkerCalls(path, files) ==
    LET i == MarkerHit(path, files)
    IN  IF i = 0 THEN Len(markers) ELSE i

\* ------------------------------------------------------------ Cache (55-98)
EmptyMap == [k \in {} |-> <<>>]

\* HashMap::insert
Insert(m, k, v) == [x \in (DOMAIN m) \cup {k} |-> IF x = k THEN v ELSE m[x]]

\* A faulty lookup that never finds the entry.
CacheGetNever(cache_opt, path) == None
\* cache.folders.get(path) on the optional cache (107-108).
CacheGet(cache_opt, path) ==
    IF IsSome(cache_opt) /\ path \in DOMAIN Unwrap(cache_opt)
    THEN Some(Unwrap(cache_opt)[path])
    ELSE None

\* A faulty add that forgets the entries of the other paths.
CacheAddAlone(cache_opt, path, ext) ==
    IF IsSome(cache_opt) THEN Some(Insert(EmptyMap, path, ext))
    ELSE cache_opt
\* Cache::add
CacheAdd(cache_opt, path, ext) ==
    IF IsSome(cache_opt) THEN Some(Insert(Unwrap(cache_opt), path, ext))
    ELSE cache_opt

\* The cache file: absent, present but not readable as text, or a text file.
Absent       == [kind |-> "absent", raw |-> <<>>]
Unreadable   == [kind |-> "unreadable", raw |-> <<>>]
TextFile(raw) == [kind |-> "file", raw |-> raw]

\* The loop of Cache::load over the lines, in order.  A line with no ";"
\* has one field only and the second next() panics ("Invalid Cache").
RECURSIVE LoadLines(_, _)
LoadLines(lines, folders) ==
    IF lines = <<>> THEN [tag |-> "ok", folders |-> folders]
    ELSE LET pair == Split(Head(lines), ";")
         IN  IF Len(pair) < 2 THEN [tag |-> "panic", folders |-> EmptyMap]
             ELSE LoadLines(Tail(lines), Insert(folders, pair[1], pair[2]))

\* Cache::load: Err when fs::read_to_string fails.
Load(file) ==
    IF file.kind # "file" THEN [tag |-> "err", folders |-> EmptyMap]
    ELSE LoadLines(Split(Trim(file.raw), NL), EmptyMap)

\* A faulty load_or_new that unwraps the Err instead of defaulting.
load_or_unwrap(file) ==
    LET r == Load(file)
    IN  IF r.tag = "err" THEN [tag |-> "panic", folders |-> EmptyMap] ELSE r
\* Cache::load_or_new: Err becomes the default cache; a panic is not caught.
load_or_new(file) ==
    LET r == Load(file)
    IN  IF r.tag = "err" THEN [tag |-> "ok", folders |-> EmptyMap] ELSE r

\* Cache::save: the text written, one for each iteration order of the map.
SaveLine(folders, path) == path \o <<";">> \o folders[path]

SaveTexts(folders) ==
    {Join([i \in 1..Len(o) |-> SaveLine(folders, o[i])], NL) :
        o \in Orders(DOMAIN folders)}

\* ------------------------------------------------------- the file system
P == <<"p">>
Q == <<"q">>
Roots == {P, Q}

\* The entries directly inside dir.
Children(files, dir) ==
    {e \in files :
        /\ Len(e) > Len(dir) + 1
        /\ SubSeq(e, 1, Len(dir) + 1) = dir \o <<"/">>
        /\ \A i \in (Len(dir) + 2)..Len(e) : e[i] # "/"}

Parent(e) ==
    LET slashes == {i \in 1..Len(e) : e[i] = "/"}
    IN  IF slashes = {} THEN <<>>
        ELSE SubSeq(e, 1, (CHOOSE i \in slashes : \A j \in slashes : j <= i) - 1)

\* A set of paths is a tree when every entry's parent is in it.
IsTree(files) == \A e \in files : e \in Roots \/ Parent(e) \in files

\* --------------------------------------------------- find_extension (100-170)
\* A faulty filter that lets every entry through.
AllowedAll(e) == TRUE
\* A faulty filter that tests how the path starts, not what it contains.
AllowedStart(e) ==
    ~ \E d \in DISALLOWED_FOLDERS :
          Len(d) <= Len(e) /\ SubSeq(e, 1, Len(d)) = d
\* The filter_entry predicate (129-133).
Allowed(e) == ~ \E d \in DISALLOWED_FOLDERS : StrContains(e, d)

\* WalkDir keeps a stack of open directories, each with the entries it has
\* not yet yielded; the entries of a directory come in any order.  Finished
\* directories are closed.
RECURSIVE CloseDone(_)
CloseDone(st) ==
    IF st # <<>> /\ st[Len(st)] = {} THEN CloseDone(SubSeq(st, 1, Len(st) - 1))
    ELSE st

\* A faulty iterator that opens the directories one level too deep.
DescendDeeper(st, e, files, max_depth) ==
    LET rest == [st EXCEPT ![Len(st)] = @ \ {e}]
        below == Children(files, e)
    IN  CloseDone(IF Allowed(e) /\ Len(st) - 1 <= max_depth /\ below # {}
                  THEN Append(rest, below)
                  ELSE rest)
\* The stack after entry e was taken from the directory on top: e dropped
\* with what is below it when the filter rejects it, opened when it passes,
\* is a directory and lies above max_depth.
Descend(st, e, files, max_depth) ==
    LET rest == [st EXCEPT ![Len(st)] = @ \ {e}]
        below == Children(files, e)
    IN  CloseDone(IF Allowed(e) /\ Len(st) - 1 < max_depth /\ below # {}
                  THEN Append(rest, below)
                  ELSE rest)

\* counts.entry(ext).or_insert(0) += 1 (138-139)
Count(counts, ext) == IF ext \in DOMAIN counts THEN counts[ext] ELSE 0
Tally(counts, ext) == Insert(counts, ext, Count(counts, ext) + 1)

\* A faulty comparison that hands the lead over on a tie.
LeadsOnTie(count, max) == count >= max
\* The comparison that makes a new leader (141).
Leads(count, max) == count > max

\* A faulty test that exits one file late.
ConfidentLate(max, threshold) == max > threshold
\* The early exit test (147).
Confident(max, threshold) == max >= threshold

\* A faulty fallback that takes the smallest count.
min_by_key(counts) ==
    IF DOMAIN counts = {} THEN {None}
    ELSE {Some(e) : e \in {x \in DOMAIN counts :
                             \A y \in DOMAIN counts : counts[x] <= counts[y]}}
\* counts.into_iter().max_by_key(count) (157-160): the map is iterated in
\* the order of its hasher, which is seeded at random, so any key with the
\* largest count can come out.
max_by_key(counts) ==
    IF DOMAIN counts = {} THEN {None}
    ELSE {Some(e) : e \in {x \in DOMAIN counts :
                             \A y \in DOMAIN counts : counts[y] <= counts[x]}}

\* ------------------------------------------------------------------ state
Procs == {1, 2}

VARIABLES
    fs,           \* the existing paths
    storage,      \* the cache file (FIND_EXT_CACHE_FILE)
    pc,           \* where each invocation is
    cfg,          \* its environment and arguments
    cache,        \* main's cache: Option<Cache>
    result,       \* what find_extension returned
    marker_ext,   \* what check_marker_files returned to it
    out,          \* what was printed on standard output
    counts,       \* find_extension's tally
    max_count,
    leading_ext,
    stack,        \* the WalkDir iterator
    markerChecks, \* fs::metadata calls made by this invocation
    seen,         \* the entries the walk loop received, in order
    runs,         \* invocations started
    changes,      \* changes made to the directories
    cachedBy,     \* path -> extension a call returned, cached and saved
    cleared       \* the entries of cachedBy deleted by --clear

procVars == <<pc, cfg, cache, result, marker_ext, out, counts, max_count,
              leading_ext, stack, markerChecks, seen>>
ghostVars == <<runs, changes, cachedBy, cleared>>
vars == <<fs, storage, procVars, ghostVars>>

Terminal == {"idle", "exit0", "exit1", "panic"}

NoCfg == [use_cache |-> FALSE, look_for |-> {}, threshold |-> 0,
          arg |-> None, depth |-> None]

\* env::args().get(1) is the path unless it is one of the clear flags.
ClearFlags == {<<"-c">>, <<"--clear">>}
PathOf(p) == Unwrap(cfg[p].arg)

\* args.get(2).parse().unwrap_or(DEFAULT_MAX_DEPTH) (198-201)
DepthOf(c) == IF IsSome(c.depth) THEN Unwrap(c.depth) ELSE DEFAULT_MAX_DEPTH

InitProcs ==
    /\ pc = [p \in Procs |-> "idle"]
    /\ cfg = [p \in Procs |-> NoCfg]
    /\ cache = [p \in Procs |-> None]
    /\ result = [p \in Procs |-> None]
    /\ marker_ext = [p \in Procs |-> None]
    /\ out = [p \in Procs |-> None]
    /\ counts = [p \in Procs |-> EmptyMap]
    /\ max_count = [p \in Procs |-> 0]
    /\ leading_ext = [p \in Procs |-> None]
    /\ stack = [p \in Procs |-> <<>>]
    /\ markerChecks = [p \in Procs |-> 0]
    /\ seen = [p \in Procs |-> <<>>]
    /\ runs = 0
    /\ changes = 0
    /\ cachedBy = EmptyMap
    /\ cleared = EmptyMap

\* ------------------------------------------------------------ the program
\* The program is started with environment and arguments c.
Start(p, c) ==
    /\ pc[p] \in Terminal
    /\ runs < MaxRuns
    /\ runs' = runs + 1
    /\ pc' = [pc EXCEPT ![p] = "load"]
    /\ cfg' = [cfg EXCEPT ![p] = c]
    /\ cache' = [cache EXCEPT ![p] = None]
    /\ result' = [result EXCEPT ![p] = None]
    /\ marker_ext' = [marker_ext EXCEPT ![p] = None]
    /\ out' = [out EXCEPT ![p] = None]
    /\ counts' = [counts EXCEPT ![p] = EmptyMap]
    /\ max_count' = [max_count EXCEPT ![p] = 0]
    /\ leading_ext' = [leading_ext EXCEPT ![p] = None]
    /\ stack' = [stack EXCEPT ![p] = <<>>]
    /\ markerChecks' = [markerChecks EXCEPT ![p] = 0]
    /\ seen' = [seen EXCEPT ![p] = <<>>]
    /\ UNCHANGED <<fs, storage, changes, cachedBy, cleared>>

\* main, line 182: then_some takes its argument by value, so the cache file
\* is loaded whether or not the cache is enabled.
LoadCache(p) ==
    /\ pc[p] = "load"
    /\ LET r == load_or_new(storage)
       IN  IF r.tag = "panic"
           THEN /\ pc' = [pc EXCEPT ![p] = "panic"]
                /\ UNCHANGED cache
           ELSE /\ pc' = [pc EXCEPT ![p] = "args"]
                /\ cache' = [cache EXCEPT ![p] =
                       IF cfg[p].use_cache THEN Some(r.folders) ELSE None]
    /\ UNCHANGED <<fs, storage, cfg, result, out, counts, max_count,
                   leading_ext, stack, markerChecks, marker_ext, seen, ghostVars>>

\* A faulty clear that reports success and leaves the file.
RemoveFileKeeps(file) ==
    IF file.kind = "absent" THEN {[ok |-> FALSE, file |-> file]}
    ELSE {[ok |-> TRUE, file |-> file]}
\* fs::remove_file(CACHE_FILE) of Cache::clear: what it can leave and
\* whether it succeeds.  An absent file cannot be removed; a file that is
\* not readable as text may or may not be removable.
RemoveFile(file) ==
    IF file.kind = "absent" THEN {[ok |-> FALSE, file |-> file]}
    ELSE IF file.kind = "file" THEN {[ok |-> TRUE, file |-> Absent]}
    ELSE {[ok |-> TRUE, file |-> Absent], [ok |-> FALSE, file |-> file]}

\* main, lines 184-196, with Cache::clear (90-92).
Args(p) ==
    /\ pc[p] = "args"
    /\ IF cfg[p].arg = None
       THEN /\ pc' = [pc EXCEPT ![p] = "exit1"]
            /\ UNCHANGED <<storage, out, cachedBy, cleared>>
       ELSE IF PathOf(p) \in ClearFlags
       THEN \E r \in RemoveFile(storage) :
               /\ storage' = r.file
               /\ IF r.ok
                  THEN /\ pc' = [pc EXCEPT ![p] = "exit0"]
                       /\ out' = [out EXCEPT ![p] = Some(<<"Cleared cache!">>)]
                       /\ cleared' = [x \in DOMAIN cleared \cup DOMAIN cachedBy |->
                              IF x \in DOMAIN cachedBy THEN cachedBy[x]
                              ELSE cleared[x]]
                       /\ cachedBy' = EmptyMap
                  ELSE /\ pc' = [pc EXCEPT ![p] = "panic"]
                       /\ UNCHANGED <<out, cachedBy, cleared>>
       ELSE /\ pc' = [pc EXCEPT ![p] = "lookup"]
            /\ UNCHANGED <<storage, out, cachedBy, cleared>>
    /\ UNCHANGED <<fs, cfg, cache, result, counts, max_count, leading_ext,
                   stack, markerChecks, marker_ext, seen, runs, changes>>

\* find_extension, lines 107-111.
Lookup(p) ==
    /\ pc[p] = "lookup"
    /\ IF IsSome(CacheGet(cache[p], PathOf(p)))
       THEN /\ result' = [result EXCEPT ![p] = CacheGet(cache[p], PathOf(p))]
            /\ pc' = [pc EXCEPT ![p] = "save"]
       ELSE /\ pc' = [pc EXCEPT ![p] = "markers"]
            /\ UNCHANGED result
    /\ UNCHANGED <<fs, storage, cfg, cache, out, counts, max_count,
                   leading_ext, stack, markerChecks, marker_ext, seen, ghostVars>>

\* A faulty test that takes the marker whether or not it is looked for.
MarkerShortcutAny(marker, look_for) == IsSome(marker)
\* The test of lines 113-114: a marker was found and its extension is in
\* the look-for set.
MarkerShortcut(marker, look_for) ==
    IsSome(marker) /\ Unwrap(marker) \in look_for

\* find_extension, lines 113-128: the marker shortcut, or the walk is set
\* up with the root as the iterator's first entry.
Markers(p) ==
    /\ pc[p] = "markers"
    /\ markerChecks' = [markerChecks EXCEPT ![p] = MarkerCalls(PathOf(p), fs)]
    /\ marker_ext' = [marker_ext EXCEPT ![p] = check_marker_files(PathOf(p), fs)]
    /\ IF MarkerShortcut(marker_ext'[p], cfg[p].look_for)
       THEN /\ cache' = [cache EXCEPT ![p] =
                   CacheAdd(@, PathOf(p), Unwrap(marker_ext'[p]))]
            /\ result' = [result EXCEPT ![p] = marker_ext'[p]]
            /\ pc' = [pc EXCEPT ![p] = "save"]
            /\ UNCHANGED stack
       ELSE /\ stack' = [stack EXCEPT ![p] =
                   IF PathOf(p) \in fs THEN <<{PathOf(p)}>> ELSE <<>>]
            /\ pc' = [pc EXCEPT ![p] =
                   IF PathOf(p) \in fs THEN "walk" ELSE "finish"]
            /\ UNCHANGED <<cache, result>>
    /\ UNCHANGED <<fs, storage, cfg, out, counts, max_count, leading_ext,
                   seen, ghostVars>>

\* find_extension, lines 126-152: one entry of the walk.
Walk(p) ==
    /\ pc[p] = "walk"
    /\ \E e \in stack[p][Len(stack[p])] :
        LET st == Descend(stack[p], e, fs, DepthOf(cfg[p]))
            ext == Extension(e)
            hit == Allowed(e) /\ IsSome(ext) /\ Unwrap(ext) \in cfg[p].look_for
            tally == IF hit THEN Tally(counts[p], Unwrap(ext)) ELSE counts[p]
            lead == hit /\ Leads(tally[Unwrap(ext)], max_count[p])
            max == IF lead THEN tally[Unwrap(ext)] ELSE max_count[p]
            stop == hit /\ Confident(max, cfg[p].threshold)
        IN  /\ stack' = [stack EXCEPT ![p] = st]
            /\ seen' = [seen EXCEPT ![p] = IF Allowed(e) THEN Append(@, e) ELSE @]
            /\ counts' = [counts EXCEPT ![p] = tally]
            /\ max_count' = [max_count EXCEPT ![p] = max]
            /\ leading_ext' = [leading_ext EXCEPT ![p] = IF lead THEN ext ELSE @]
            /\ pc' = [pc EXCEPT ![p] = IF stop \/ st = <<>> THEN "finish" ELSE "walk"]
    /\ UNCHANGED <<fs, storage, cfg, cache, result, out, markerChecks, marker_ext, ghostVars>>

\* A faulty ending that caches the empty extension when there is no result.
AddResultAlways(cache_opt, path, max_ext) ==
    CacheAdd(cache_opt, path, IF IsSome(max_ext) THEN Unwrap(max_ext) ELSE <<>>)
\* Lines 163-167: the result is cached when there is one.
AddResult(cache_opt, path, max_ext) ==
    IF IsSome(max_ext) THEN CacheAdd(cache_opt, path, Unwrap(max_ext))
    ELSE cache_opt

\* find_extension, lines 154-170.
Finish(p) ==
    /\ pc[p] = "finish"
    /\ \E max_ext \in (IF Confident(max_count[p], cfg[p].threshold)
                       THEN {leading_ext[p]}
                       ELSE max_by_key(counts[p])) :
        /\ cache' = [cache EXCEPT ![p] = AddResult(@, PathOf(p), max_ext)]
        /\ result' = [result EXCEPT ![p] = max_ext]
    /\ pc' = [pc EXCEPT ![p] = "save"]
    /\ UNCHANGED <<fs, storage, cfg, out, counts, max_count, leading_ext,
                   stack, markerChecks, marker_ext, seen, runs, changes, cachedBy, cleared>>

\* fs::write(CACHE_FILE, text) of Cache::save: a file that is not readable
\* as text may or may not be writable.
WriteFile(file, text) ==
    IF file.kind = "unreadable"
    THEN {[ok |-> TRUE, file |-> TextFile(text)], [ok |-> FALSE, file |-> file]}
    ELSE {[ok |-> TRUE, file |-> TextFile(text)]}

\* main, lines 210-215, with Cache::save (79-88).
Save(p) ==
    /\ pc[p] = "save"
    /\ IF IsSome(cache[p])
       THEN \E text \in SaveTexts(Unwrap(cache[p])) :
            \E w \in WriteFile(storage, text) :
               /\ storage' = w.file
               /\ IF w.ok
                  THEN /\ pc' = [pc EXCEPT ![p] = "exit0"]
                       /\ out' = [out EXCEPT ![p] =
                              Some(IF IsSome(result[p]) THEN Unwrap(result[p]) ELSE <<>>)]
                       /\ IF IsSome(result[p]) /\ markerChecks[p] > 0
                          THEN /\ cachedBy' = Insert(cachedBy, PathOf(p), Unwrap(result[p]))
                               /\ cleared' = [x \in DOMAIN cleared \ {PathOf(p)} |-> cleared[x]]
                          ELSE UNCHANGED <<cachedBy, cleared>>
                  ELSE /\ pc' = [pc EXCEPT ![p] = "panic"]
                       /\ UNCHANGED <<out, cachedBy, cleared>>
       ELSE /\ pc' = [pc EXCEPT ![p] = "exit0"]
            /\ out' = [out EXCEPT ![p] =
                   Some(IF IsSome(result[p]) THEN Unwrap(result[p]) ELSE <<>>)]
            /\ UNCHANGED <<storage, cachedBy, cleared>>
    /\ UNCHANGED <<fs, cfg, cache, result, counts, max_count, leading_ext,
                   stack, markerChecks, marker_ext, seen, runs, changes>>

\* fs::write is File::create followed by write_all: the file is opened and
\* truncated, then the text is written from offset 0.  Save takes the two
\* together, which is what a lone invocation does; SaveOpen and SaveWrite
\* are the two steps as invocations running side by side take them.
SaveOpen(p) ==
    /\ pc[p] = "save"
    /\ IF IsSome(cache[p])
       THEN \E w \in WriteFile(storage, <<>>) :
               /\ storage' = w.file
               /\ pc' = [pc EXCEPT ![p] = IF w.ok THEN "write" ELSE "panic"]
               /\ UNCHANGED out
       ELSE /\ pc' = [pc EXCEPT ![p] = "exit0"]
            /\ out' = [out EXCEPT ![p] =
                   Some(IF IsSome(result[p]) THEN Unwrap(result[p]) ELSE <<>>)]
            /\ UNCHANGED storage
    /\ UNCHANGED <<fs, cfg, cache, result, counts, max_count, leading_ext,
                   stack, markerChecks, marker_ext, seen, ghostVars>>

\* write_all from offset 0 into a file holding old: what lies beyond the
\* text stays.
Overwrite(old, text) == text \o SubSeq(old, Len(text) + 1, Len(old))

SaveWrite(p) ==
    /\ pc[p] = "write"
    /\ \E text \in SaveTexts(Unwrap(cache[p])) :
          storage' = IF storage.kind = "file"
                     THEN TextFile(Overwrite(storage.raw, text))
                     ELSE storage
    /\ pc' = [pc EXCEPT ![p] = "exit0"]
    /\ out' = [out EXCEPT ![p] =
           Some(IF IsSome(result[p]) THEN Unwrap(result[p]) ELSE <<>>)]
    /\ IF IsSome(result[p]) /\ markerChecks[p] > 0
       THEN /\ cachedBy' = Insert(cachedBy, PathOf(p), Unwrap(result[p]))
            /\ cleared' = [x \in DOMAIN cleared \ {PathOf(p)} |-> cleared[x]]
       ELSE UNCHANGED <<cachedBy, cleared>>
    /\ UNCHANGED <<fs, cfg, cache, result, counts, max_count, leading_ext,
                   stack, markerChecks, marker_ext, seen, runs, changes>>

\* ------------------------------------------------------- the environment
\* Between invocations an entry is created or deleted.
ChangeDir(e) ==
    /\ \A p \in Procs : pc[p] \in Terminal
    /\ changes < MaxChanges
    /\ runs < MaxRuns
    /\ e \notin Roots
    /\ fs' = IF e \in fs THEN fs \ {e} ELSE fs \cup {e}
    /\ IsTree(fs')
    /\ changes' = changes + 1
    /\ UNCHANGED <<storage, procVars, runs, cachedBy, cleared>>

\* ------------------------------------------------------- specification
\* Invocations one after the other, with the cache file in any state at
\* the start and the directories changing in between.
LookFors == {{RS}, {RS, PY}}
Thresholds == (1..MaxThreshold) \cup {DEFAULT_CONFIDENCE_THRESHOLD}

Universe ==
    {P, Q,
     PathJoin(P, <<"Cargo", ".", "toml">>),
     PathJoin(P, <<"a", ".", "rs">>),
     PathJoin(P, <<"b", ".", "py">>),
     PathJoin(Q, <<"c", ".", "py">>)}

Storages ==
    {Absent, Unreadable, TextFile(<<>>), TextFile(<<"p">>),
     TextFile(<<"p", ";", "py", NL>>)}

Configs ==
    [use_cache : BOOLEAN, look_for : LookFors, threshold : {1, DEFAULT_CONFIDENCE_THRESHOLD},
     arg : {None} \cup {Some(a) : a \in ClearFlags \cup Roots},
     depth : {None}]

Init ==
    /\ fs \in {t \in SUBSET Universe : Roots \subseteq t /\ IsTree(t)}
    /\ storage \in Storages
    /\ InitProcs

Step(p) ==
    \/ LoadCache(p)
    \/ Args(p)
    \/ Lookup(p)
    \/ Markers(p)
    \/ Walk(p)
    \/ Finish(p)
    \/ Save(p)

Next ==
    \/ \E c \in Configs : Start(1, c)
    \/ Step(1)
    \/ \E e \in Universe : ChangeDir(e)

Spec == Init /\ [][Next]_vars

\* One invocation without the cache, over the trees of WalkUniverse: files
\* of two look-for extensions, a disallowed folder and three levels.  The
\* path given is p or the disallowed folder itself.
WalkUniverse ==
    {P, Q,
     PathJoin(P, <<"a", ".", "py">>),
     PathJoin(P, <<"c", ".", "ts">>),
     PathJoin(P, <<"d", ".", "ts">>),
     PathJoin(P, <<"target">>),
     PathJoin(P, <<"target", "/", "e", ".", "ts">>),
     PathJoin(P, <<"s">>),
     PathJoin(P, <<"s", "/", "g", ".", "py">>),
     PathJoin(P, <<"s", "/", "t">>),
     PathJoin(P, <<"s", "/", "t", "/", "h", ".", "py">>)}

WalkConfigs ==
    [use_cache : {FALSE}, look_for : {{PY}, {PY, TS}}, threshold : Thresholds,
     arg : {Some(P), Some(PathJoin(P, <<"target">>))},
     depth : {None} \cup {Some(d) : d \in 0..MaxDepthArg}]

InitWalk ==
    /\ fs \in {t \in SUBSET WalkUniverse : Roots \subseteq t /\ IsTree(t)}
    /\ storage = Absent
    /\ InitProcs

NextWalk ==
    \/ \E c \in WalkConfigs : runs = 0 /\ Start(1, c)
    \/ Step(1)

SpecWalk == InitWalk /\ [][NextWalk]_vars

\* One invocation on a directory holding any of the nine marker files, the
\* cache file absent: with depth 0, and with depth 1 when the directory
\* holds at most MaxWalkedMarkers of them.  At depth 1 the walk meets the
\* marker files themselves, setup.py being a py file.
MarkerUniverse == Roots \cup {PathJoin(P, markers[i].file) : i \in 1..Len(markers)}

MarkerConfigs ==
    [use_cache : BOOLEAN,
     look_for : {{markers[i].ext : i \in 1..Len(markers)}, {RS, PY}},
     threshold : {DEFAULT_CONFIDENCE_THRESHOLD},
     arg : {Some(P)},
     depth : {Some(0), Some(1)}]

InitMarkers ==
    /\ fs \in {t \in SUBSET MarkerUniverse : Roots \subseteq t}
    /\ storage = Absent
    /\ InitProcs

NextMarkers ==
    \/ \E c \in MarkerConfigs :
          /\ runs = 0
          /\ DepthOf(c) > 0 => Cardinality(fs \ Roots) <= MaxWalkedMarkers
          /\ Start(1, c)
    \/ Step(1)

SpecMarkers == InitMarkers /\ [][NextMarkers]_vars

\* Two invocations with the same environment and arguments on the same
\* directory, one after the other, without the cache.
PairUniverse ==
    {P, Q,
     PathJoin(P, <<"a", ".", "py">>),
     PathJoin(P, <<"c", ".", "ts">>),
     PathJoin(P, <<"s">>),
     PathJoin(P, <<"s", "/", "g", ".", "py">>)}

PairConfigs ==
    [use_cache : {FALSE}, look_for : {{PY, TS}}, threshold : Thresholds,
     arg : {Some(P)}, depth : {None}]

InitPair ==
    /\ fs \in {t \in SUBSET PairUniverse : Roots \subseteq t /\ IsTree(t)}
    /\ storage = Absent
    /\ InitProcs

NextPair ==
    \/ \E c \in PairConfigs : runs = 0 /\ Start(1, c)
    \/ Step(1)
    \/ pc[1] = "exit0" /\ pc[2] = "idle" /\ Start(2, cfg[1])
    \/ Step(2)

SpecPair == InitPair /\ [][NextPair]_vars

\* Two invocations with the cache enabled running side by side, one on p
\* and one on p/s/t, the cache file absent or holding an entry of another
\* path.  Every token of the texts written is one character, c being the
\* extension looked for, so that offsets in tokens are offsets in bytes.
CEXT == <<"c">>
ConcPaths == <<P, PathJoin(P, <<"s", "/", "t">>)>>

ConcUniverse ==
    {P, Q,
     PathJoin(P, <<"a", ".", "c">>),
     PathJoin(P, <<"s">>),
     PathJoin(P, <<"s", "/", "t">>),
     PathJoin(P, <<"s", "/", "t", "/", "h", ".", "c">>)}

ConcStorages == {Absent, TextFile(<<"r", ";", "c">>)}

ConcConfigs(p) ==
    [use_cache : {TRUE}, look_for : {{CEXT}},
     threshold : {1, DEFAULT_CONFIDENCE_THRESHOLD},
     arg : {Some(ConcPaths[p])}, depth : {None}]

InitConc ==
    /\ fs \in {t \in SUBSET ConcUniverse : Roots \subseteq t /\ IsTree(t)}
    /\ storage \in ConcStorages
    /\ InitProcs

StepConc(p) ==
    \/ LoadCache(p)
    \/ Args(p)
    \/ Lookup(p)
    \/ Markers(p)
    \/ Walk(p)
    \/ Finish(p)
    \/ SaveOpen(p)
    \/ SaveWrite(p)

NextConc ==
    \/ \E p \in Procs : \E c \in ConcConfigs(p) : pc[p] = "idle" /\ Start(p, c)
    \/ \E p \in Procs : StepConc(p)

SpecConc == InitConc /\ [][NextConc]_vars

\* ----------------------------------------------------------------- claims
\* What the directory holds now, stated without the walk: the entries of
\* path down to max_depth levels below it that no disallowed folder hides.
Below(root, e) ==
    \/ e = root
    \/ Len(e) > Len(root) + 1 /\ SubSeq(e, 1, Len(root) + 1) = root \o <<"/">>

LevelOf(root, e) == Cardinality({i \in (Len(root) + 1)..Len(e) : e[i] = "/"})

Countable(root, max_depth, ext) ==
    {e \in fs : /\ Below(root, e)
                /\ LevelOf(root, e) <= max_depth
                /\ ~ \E d \in DISALLOWED_FOLDERS : StrContains(e, d)
                /\ Extension(e) = Some(ext)}

HasMarkerFor(root, ext) ==
    \E i \in 1..Len(markers) :
        markers[i].ext = ext /\ PathJoin(root, markers[i].file) \in fs

\* The result of invocation p fits the present contents of its directory:
\* an extension is backed by a marker or a countable file, and no result
\* means no look-for file is countable.
FitsDirectory(p) ==
    IF IsSome(result[p])
    THEN /\ Unwrap(result[p]) \in cfg[p].look_for
         /\ \/ HasMarkerFor(PathOf(p), Unwrap(result[p]))
            \/ Countable(PathOf(p), DepthOf(cfg[p]), Unwrap(result[p])) # {}
    ELSE \A x \in cfg[p].look_for :
            Countable(PathOf(p), DepthOf(cfg[p]), x) = {}

\* C1: with the cache enabled, once a call for path P has returned e, cached
\* it and saved it, every later call for P returns e without any marker
\* check or walk step, whatever the directory holds by then.
C1_CacheHitAvoidsRework ==
    \A p \in Procs :
        (pc[p] = "save" /\ cfg[p].use_cache /\ PathOf(p) \in DOMAIN cachedBy)
            => /\ result[p] = Some(cachedBy[PathOf(p)])
               /\ markerChecks[p] = 0
               /\ seen[p] = <<>>

\* A hit on an entry cached by an earlier invocation, after the directory
\* changed so that it no longer backs the cached extension.
C1_Witness ==
    \E p \in Procs :
        /\ pc[p] = "save" /\ cfg[p].use_cache
        /\ PathOf(p) \in DOMAIN cachedBy
        /\ changes > 0
        /\ result[p] = Some(cachedBy[PathOf(p)])
        /\ ~ FitsDirectory(p)

\* C6: when the cache file is absent or unreadable, loading never aborts:
\* the invocation goes on from line 182 with an empty cache (or none when
\* the cache is disabled).
C6_LoadNeverFails ==
    [][\A p \in Procs :
         (pc[p] = "load" /\ storage.kind # "file" /\ pc'[p] # "load")
            => /\ pc'[p] = "args"
               /\ cache'[p] = IF cfg[p].use_cache THEN Some(EmptyMap) ELSE None]_vars

\* Detection has run to its result on the empty cache loaded from an absent
\* cache file.
C6_Witness ==
    \E p \in Procs :
        /\ pc[p] = "save" /\ cfg[p].use_cache
        /\ storage = Absent
        /\ IsSome(result[p])
        /\ cache[p] = Some(Insert(EmptyMap, PathOf(p), Unwrap(result[p])))

\* C7: after a cache-enabled run has saved its cache, loading the cache file
\* succeeds and gives back exactly the entries saved, the cache with no
\* entries included.
C7_SaveLoadInverse ==
    \A p \in Procs :
        (pc[p] = "exit0" /\ IsSome(cache[p]) /\ IsSome(cfg[p].arg)
            /\ PathOf(p) \notin ClearFlags)
            => Load(storage) = [tag |-> "ok", folders |-> Unwrap(cache[p])]

\* C8: an invocation with --clear or -c ends with exit status zero and the
\* cache file absent, whatever the file was and whether or not the cache is
\* enabled.
C8_ClearExitsZero ==
    \A p \in Procs :
        (pc[p] \in {"exit0", "exit1", "panic"} /\ IsSome(cfg[p].arg)
            /\ PathOf(p) \in ClearFlags)
            => pc[p] = "exit0" /\ storage = Absent

\* C9: once --clear has deleted an entry cached for P, the next
\* cache-enabled call for P checks the markers again and its result fits
\* the directory as it is now.
C9_ClearInvalidates ==
    \A p \in Procs :
        (pc[p] = "save" /\ cfg[p].use_cache /\ PathOf(p) \in DOMAIN cleared)
            => /\ markerChecks[p] > 0
               /\ FitsDirectory(p)

\* The call after the clear returns something else than the deleted entry,
\* the directory having changed.
C9_Witness ==
    \E p \in Procs :
        /\ pc[p] = "save" /\ cfg[p].use_cache
        /\ PathOf(p) \in DOMAIN cleared
        /\ changes > 0
        /\ result[p] # Some(cleared[PathOf(p)])
        /\ IsSome(result[p])

\* The call of invocation p has returned.
Returned(p) == pc[p] \in {"save", "exit0"}

\* Its result came from the walk: the markers were checked and the result
\* is not one given without any entry of the walk (the marker shortcut).
Walked(p) ==
    /\ Returned(p)
    /\ markerChecks[p] > 0
    /\ ~ (IsSome(result[p]) /\ seen[p] = <<>>)

Reached(p) == {x \in DOMAIN counts[p] : counts[p][x] >= cfg[p].threshold}

\* C3: the walk takes no entry once a count has reached the threshold, and
\* the call returns the extension whose count reached it: the extension of
\* the last entry taken, at exactly the threshold, every other below it.
C3_EarlyExit ==
    \A p \in Procs :
        /\ pc[p] = "walk" => Reached(p) = {}
        /\ (pc[p] \in {"finish", "save", "exit0"} /\ Reached(p) # {})
              => LET e == seen[p][Len(seen[p])]
                 IN  /\ IsSome(Extension(e))
                     /\ Reached(p) = {Unwrap(Extension(e))}
                     /\ counts[p][Unwrap(Extension(e))] = cfg[p].threshold
                     /\ Returned(p) => result[p] = Extension(e)

\* An early exit on py with entries left unread, in a directory where a
\* full scan counts more ts than py.
C3_Witness ==
    \E p \in Procs :
        /\ pc[p] = "save" /\ Reached(p) = {PY}
        /\ result[p] = Some(PY)
        /\ stack[p] # <<>>
        /\ Cardinality(Countable(PathOf(p), DepthOf(cfg[p]), TS))
              > Cardinality(Countable(PathOf(p), DepthOf(cfg[p]), PY))
        /\ TS \in cfg[p].look_for

\* C4: when the walk ends with every count below the threshold, the tally
\* holds the number of countable files of each look-for extension, the call
\* returns an extension of the largest count, and nothing when the tally is
\* empty, which is printed as the empty string with exit status zero.
C4_Fallback ==
    \A p \in Procs :
        (Walked(p) /\ Reached(p) = {})
            => /\ \A x \in cfg[p].look_for :
                     Count(counts[p], x)
                        = Cardinality(Countable(PathOf(p), DepthOf(cfg[p]), x))
               /\ IF DOMAIN counts[p] = {}
                  THEN /\ result[p] = None
                       /\ pc[p] = "exit0" => out[p] = Some(<<>>)
                  ELSE /\ IsSome(result[p])
                       /\ Unwrap(result[p]) \in DOMAIN counts[p]
                       /\ \A y \in DOMAIN counts[p] :
                             counts[p][y] <= counts[p][Unwrap(result[p])]
                       /\ pc[p] = "exit0" => out[p] = result[p]

\* The fallback picked ts with two files over py with one.
C4_Witness ==
    \E p \in Procs :
        /\ Walked(p) /\ Reached(p) = {}
        /\ Count(counts[p], TS) = 2 /\ Count(counts[p], PY) = 1
        /\ result[p] = Some(TS)

\* The walk found nothing and the empty string was printed.
C4_WitnessEmpty ==
    \E p \in Procs :
        /\ Walked(p) /\ pc[p] = "exit0"
        /\ DOMAIN counts[p] = {} /\ out[p] = Some(<<>>)

Hidden(e) == \E d \in DISALLOWED_FOLDERS : StrContains(e, d)

\* C5: the walk never receives an entry whose path holds a disallowed
\* folder, never opens a directory below one, and tallies no file below
\* one; a directory whose look-for files are all below disallowed folders
\* gives no result.
C5_ExclusionPrunes ==
    \A p \in Procs :
        /\ \A i \in 1..Len(seen[p]) : ~ Hidden(seen[p][i])
        /\ \A i \in 1..Len(stack[p]) : \A e \in stack[p][i] :
              e = PathOf(p) \/ ~ Hidden(Parent(e))
        /\ \A x \in DOMAIN counts[p] :
              counts[p][x] <= Cardinality(Countable(PathOf(p), DepthOf(cfg[p]), x))
        /\ (Walked(p) /\ \A e \in fs :
                (Below(PathOf(p), e) /\ IsSome(Extension(e))
                    /\ Unwrap(Extension(e)) \in cfg[p].look_for) => Hidden(e))
              => result[p] = None

\* No result for a directory that holds a look-for file, below the
\* disallowed folder and within the depth.
C5_Witness ==
    \E p \in Procs :
        /\ Walked(p) /\ result[p] = None
        /\ TS \in cfg[p].look_for
        /\ DepthOf(cfg[p]) >= 2
        /\ PathJoin(P, <<"target", "/", "e", ".", "ts">>) \in fs
        /\ PathOf(p) = P

\* The marker files and their extensions in the order the claim gives.
C2_Table ==
    << [file |-> <<"package", ".", "json">>,     ext |-> <<"js">>],
       [file |-> <<"Cargo", ".", "toml">>,       ext |-> <<"rs">>],
       [file |-> <<"requirements", ".", "txt">>, ext |-> <<"py">>],
       [file |-> <<"setup", ".", "py">>,         ext |-> <<"py">>],
       [file |-> <<"go", ".", "mod">>,           ext |-> <<"go">>],
       [file |-> <<"composer", ".", "json">>,    ext |-> <<"php">>],
       [file |-> <<"build", ".", "gradle">>,     ext |-> <<"kt">>],
       [file |-> <<"pom", ".", "xml">>,          ext |-> <<"java">>],
       [file |-> <<"Gemfile">>,                  ext |-> <<"rb">>] >>

C2_Exists(p, i) == (PathOf(p) \o <<"/">> \o C2_Table[i].file) \in fs

\* C2: on a cache miss, whichever of the nine marker files are in the
\* directory, check_marker_files returns the extension of the earliest one
\* in the fixed order, checking no later marker (none when there is no
\* marker); when that extension is in the look-for set the call returns it
\* without any walk step.
C2_MarkerPrecedence ==
    \A p \in Procs :
        (markerChecks[p] > 0 /\ pc[p] \in {"walk", "finish", "save"})
            => LET ex == {i \in 1..9 : C2_Exists(p, i)}
               IN  IF ex = {} THEN marker_ext[p] = None
                   ELSE \A i \in ex :
                          (\A j \in ex : i <= j)
                             => /\ marker_ext[p] = Some(C2_Table[i].ext)
                                /\ markerChecks[p] = i
                                /\ C2_Table[i].ext \in cfg[p].look_for
                                      => /\ pc[p] = "save"
                                         /\ result[p] = Some(C2_Table[i].ext)
                                         /\ seen[p] = <<>>

\* js returned for a directory holding package.json and Cargo.toml, with
\* js and rs looked for.
C2_Witness ==
    \E p \in Procs :
        /\ Returned(p) /\ markerChecks[p] > 0
        /\ C2_Exists(p, 1) /\ C2_Exists(p, 2)
        /\ {JS, RS} \subseteq cfg[p].look_for
        /\ result[p] = Some(JS)
        /\ seen[p] = <<>>

\* C10: two executions with the same configuration that received the same
\* sequence of entries and ended below the threshold return the same
\* extension.
C10_DeterministicTieBreak ==
    (/\ Walked(1) /\ Walked(2)
     /\ cfg[1] = cfg[2]
     /\ seen[1] = seen[2]
     /\ Reached(1) = {} /\ Reached(2) = {})
        => result[1] = result[2]

\* The result of invocation p is the one the walk gives on its own: the
\* extension whose count reached the threshold, or else, the tally holding
\* the number of countable files of each look-for extension, an extension
\* of the largest count, or nothing when the tally is empty.
FromWalk(p) ==
    IF Reached(p) # {}
    THEN IsSome(result[p]) /\ Unwrap(result[p]) \in Reached(p)
    ELSE /\ \A x \in cfg[p].look_for :
               Count(counts[p], x)
                  = Cardinality(Countable(PathOf(p), DepthOf(cfg[p]), x))
         /\ IF DOMAIN counts[p] = {} THEN result[p] = None
            ELSE /\ IsSome(result[p])
                 /\ Unwrap(result[p]) \in DOMAIN counts[p]
                 /\ \A y \in DOMAIN counts[p] :
                       counts[p][y] <= counts[p][Unwrap(result[p])]

\* C11: on a cache miss, when the extension of the earliest existing marker
\* is not in the look-for set, no later marker is checked, nothing is
\* returned or cached before the walk, and the call returns the result of
\* the walk alone, which is the only entry the cache receives.
C11_MarkerFallThrough ==
    \A p \in Procs :
        LET ex == IF markerChecks[p] > 0 THEN {i \in 1..9 : C2_Exists(p, i)}
                  ELSE {}
        IN  \A i \in ex :
              (/\ pc[p] \in {"walk", "finish", "save"}
               /\ \A j \in ex : i <= j
               /\ C2_Table[i].ext \notin cfg[p].look_for)
                 => /\ markerChecks[p] = i
                    /\ pc[p] \in {"walk", "finish"}
                          => /\ result[p] = None
                             /\ CacheGet(cache[p], PathOf(p)) = None
                    /\ pc[p] = "save"
                          => /\ FromWalk(p)
                             /\ cache[p] =
                                  IF ~ cfg[p].use_cache THEN None
                                  ELSE IF IsSome(result[p])
                                  THEN Some(Insert(EmptyMap, PathOf(p), Unwrap(result[p])))
                                  ELSE Some(EmptyMap)

\* package.json comes first and js is not looked for: Cargo.toml, whose rs
\* is looked for, is passed over and the walk's py (setup.py) is returned
\* and cached.
C11_Witness ==
    \E p \in Procs :
        /\ pc[p] = "save" /\ cfg[p].use_cache
        /\ C2_Exists(p, 1) /\ C2_Exists(p, 2) /\ C2_Exists(p, 4)
        /\ cfg[p].look_for = {RS, PY}
        /\ marker_ext[p] = Some(JS)
        /\ markerChecks[p] = 1
        /\ result[p] = Some(PY)
        /\ cache[p] = Some(Insert(EmptyMap, PathOf(p), PY))

\* The text of a cache file is malformed when it is empty or one of its
\* non-empty lines has no ";".
C12_Malformed(raw) ==
    \/ raw = <<>>
    \/ \E i \in 1..Len(Split(raw, NL)) :
          LET line == Split(raw, NL)[i]
          IN  line # <<>> /\ \A k \in 1..Len(line) : line[k] # ";"

\* C12: no invocation aborts on a malformed cache file: the file is
\* discarded and the invocation goes on.
C12_MalformedDiscarded ==
    \A p \in Procs :
        (storage.kind = "file" /\ C12_Malformed(storage.raw))
            => pc[p] # "panic"

\* C13: when two cache-enabled invocations for different uncached paths
\* have both loaded the cache file before either saved, the save that comes
\* last leaves the cache file holding exactly the entries of its own
\* invocation, the entry of the other absent and nothing else.
C13_LastWriterWins ==
    [][\A p, q \in Procs :
         (/\ p # q
          /\ pc[p] = "write" /\ pc'[p] = "exit0"
          /\ pc[q] = "exit0" /\ IsSome(cache[q])
          /\ markerChecks[p] > 0 /\ markerChecks[q] > 0
          /\ IsSome(result[p]) /\ IsSome(result[q])
          /\ PathOf(p) # PathOf(q)
          /\ PathOf(q) \notin DOMAIN Unwrap(cache[p])
          /\ PathOf(p) \notin DOMAIN Unwrap(cache[q]))
            => /\ storage'.kind = "file"
               /\ storage'.raw \in SaveTexts(Unwrap(cache[p]))
               /\ Load(storage') = [tag |-> "ok", folders |-> Unwrap(cache[p])]]_vars

\* The entries a cache file holds, read off its text: one pair for every
\* line that has a path and an extension.
StoredPairs(file) ==
    IF file.kind # "file" THEN {}
    ELSE LET lines == Split(file.raw, NL)
             fields == {Split(lines[i], ";") : i \in 1..Len(lines)}
         IN  {<<f[1], f[2]>> : f \in {g \in fields : Len(g) >= 2}}

\* The invocation about to read its arguments was given a clear flag.
Clearing(p) ==
    pc[p] = "args" /\ IsSome(cfg[p].arg) /\ PathOf(p) \in ClearFlags

\* C14: the cache file never holds two entries for one path, and no step
\* other than a clear removes or changes an entry it holds, whatever the
\* later invocations are run on, look for and find.
C14_OneEntryNoExpiry ==
    [][/\ \A a, b \in StoredPairs(storage') : a[1] = b[1] => a = b
       /\ (\A p \in Procs : ~ Clearing(p))
             => StoredPairs(storage) \subseteq StoredPairs(storage')]_vars

\* An invocation on p has just added its entry to a cache file that holds
\* the py cached for q by an earlier one; py is not looked for any more and
\* the directories have changed.
C14_Witness ==
    /\ pc[1] = "exit0" /\ cfg[1].use_cache
    /\ cfg[1].arg = Some(P) /\ markerChecks[1] > 0
    /\ cfg[1].look_for = {RS}
    /\ changes > 0
    /\ StoredPairs(storage) = {<<P, RS>>, <<Q, PY>>}
    /\ cachedBy = Insert(Insert(EmptyMap, P, RS), Q, PY)

\* C15: an extension returned by a call is in the look-for set of its
\* invocation, whether the call computed it (marker, early exit, fallback)
\* or took it from an entry that an earlier invocation cached.
C15_ResultLookedFor ==
    \A p \in Procs :
        (/\ Returned(p) /\ IsSome(result[p])
         /\ markerChecks[p] > 0 \/ PathOf(p) \in DOMAIN cachedBy)
            => Unwrap(result[p]) \in cfg[p].look_for

\* The largest count of a tally, 0 for the empty one.
C16_Max(tally) ==
    IF DOMAIN tally = {} THEN 0
    ELSE tally[CHOOSE x \in DOMAIN tally : \A y \in DOMAIN tally : tally[y] <= tally[x]]

\* C16: after every step of the walk max_count is the largest count of the
\* tally and leading_ext is an extension that has it (none on the empty
\* tally); the leader changes only to an extension whose count has just
\* become greater than max_count was, so that it stays on a tie.
C16_RunningLeader ==
    [][\A p \in Procs :
         pc[p] = "walk"
            => /\ max_count'[p] = C16_Max(counts'[p])
               /\ IF DOMAIN counts'[p] = {} THEN leading_ext'[p] = None
                  ELSE /\ IsSome(leading_ext'[p])
                       /\ Unwrap(leading_ext'[p]) \in DOMAIN counts'[p]
                       /\ counts'[p][Unwrap(leading_ext'[p])] = max_count'[p]
               /\ leading_ext'[p] # leading_ext[p]
                     => /\ IsSome(leading_ext'[p])
                        /\ counts'[p][Unwrap(leading_ext'[p])] > max_count[p]
                        /\ counts'[p][Unwrap(leading_ext'[p])]
                              = Count(counts[p], Unwrap(leading_ext'[p])) + 1]_vars

\* ts drew level with py, which had the lead and keeps it.
C16_Witness ==
    \E p \in Procs :
        /\ pc[p] = "walk"
        /\ Count(counts[p], PY) = 1 /\ Count(counts[p], TS) = 1
        /\ leading_ext[p] = Some(PY)
        /\ Extension(seen[p][Len(seen[p])]) = Some(TS)

\* C17: with the root at level 0, the walk receives no entry more than
\* max_depth levels below the root, the tally counts exactly the look-for
\* files among the entries received, and a walk that ran to its end has
\* received every entry down to level max_depth that no disallowed folder
\* hides: a file at level max_depth is tallied, one below it is not.
C17_DepthBound ==
    \A p \in Procs :
        markerChecks[p] > 0
            => /\ \A i \in 1..Len(seen[p]) :
                     LevelOf(PathOf(p), seen[p][i]) <= DepthOf(cfg[p])
               /\ \A x \in cfg[p].look_for :
                     Count(counts[p], x)
                        = Cardinality({i \in 1..Len(seen[p]) :
                                          Extension(seen[p][i]) = Some(x)})
               /\ ((pc[p] = "finish" \/ Walked(p)) /\ Reached(p) = {})
                     => \A e \in fs :
                           (/\ Below(PathOf(p), e)
                            /\ LevelOf(PathOf(p), e) <= DepthOf(cfg[p])
                            /\ ~ Hidden(e))
                              => \E i \in 1..Len(seen[p]) : seen[p][i] = e

\* With depth 1 given, c.ts at level 1 is tallied and returned while g.py
\* at level 2 is not counted.
C17_Witness ==
    \E p \in Procs :
        /\ pc[p] = "save" /\ markerChecks[p] > 0
        /\ cfg[p].depth = Some(1)
        /\ cfg[p].look_for = {PY, TS}
        /\ PathJoin(P, <<"s", "/", "g", ".", "py">>) \in fs
        /\ Count(counts[p], PY) = 0
        /\ Count(counts[p], TS) = 1
        /\ result[p] = Some(TS)

\* C18: an invocation on a path with the cache disabled never aborts and
\* never touches the cache file, whatever the file is, and it ends printing
\* the result of a call that went through the markers and the walk.
C18_CacheOffIndependent ==
    [][\A p \in Procs :
         (/\ pc[p] \notin Terminal
          /\ ~ cfg[p].use_cache
          /\ IsSome(cfg[p].arg) /\ PathOf(p) \notin ClearFlags)
            => /\ pc'[p] # "panic"
               /\ storage' = storage
               /\ pc'[p] = "exit0"
                     => /\ markerChecks[p] > 0
                        /\ out'[p] = Some(IF IsSome(result[p])
                                          THEN Unwrap(result[p]) ELSE <<>>)]_vars

\* The entries an invocation starts with: those of the cache file, none
\* when the file cannot be read.
C19_Loaded == IF Load(storage).tag = "ok" THEN Load(storage).folders ELSE EmptyMap

\* C19: when a call has returned, the cache holds the entries it was loaded
\* with and, if the call returned an extension, that extension for the path
\* of the call; a call that returned nothing left the entries as they were.
C19_NoResultNoEntry ==
    \A p \in Procs :
        (pc[p] = "save" /\ IsSome(cache[p]))
            => Unwrap(cache[p]) =
                  IF IsSome(result[p])
                  THEN Insert(C19_Loaded, PathOf(p), Unwrap(result[p]))
                  ELSE C19_Loaded

\* A call on q went through the markers and the walk, found nothing, and
\* the cache still holds just the entry of p it was loaded with.
C19_Witness ==
    \E p \in Procs :
        /\ pc[p] = "save" /\ IsSome(cache[p])
        /\ cfg[p].arg = Some(Q)
        /\ markerChecks[p] > 0 /\ seen[p] # <<>>
        /\ result[p] = None
        /\ Unwrap(cache[p]) = Insert(EmptyMap, P, PY)

\* C20: when the path given holds a disallowed folder name and the call
\* gets past the cache and the markers, the walk receives no entry, the
\* tally stays empty and the call returns nothing, whatever files the
\* directory holds.
C20_DisallowedRoot ==
    \A p \in Procs :
        (/\ markerChecks[p] > 0
         /\ Hidden(PathOf(p))
         /\ marker_ext[p] = None \/ Unwrap(marker_ext[p]) \notin cfg[p].look_for)
            => /\ seen[p] = <<>>
               /\ counts[p] = EmptyMap
               /\ max_count[p] = 0
               /\ result[p] = None
               /\ pc[p] = "exit0" => out[p] = Some(<<>>)

\* Nothing is returned for p/target although it holds e.ts, ts is looked
\* for and the depth reaches it.
C20_Witness ==
    \E p \in Procs :
        /\ pc[p] = "exit0" /\ markerChecks[p] > 0
        /\ cfg[p].arg = Some(PathJoin(P, <<"target">>))
        /\ PathJoin(P, <<"target", "/", "e", ".", "ts">>) \in fs
        /\ TS \in cfg[p].look_for
        /\ DepthOf(cfg[p]) >= 1
        /\ out[p] = Some(<<>>)

=============================================================================
